---- MODULE Spec2Model ----
(***************************************************************************)
(* Model of src/src/index.ts: an express application keeping users in an   *)
(* in-memory object `users` keyed by an auto-incremented `nextId`.          *)
(* Strings are sequences of one-character strings so that trim(), the      *)
(* email regular expression and parseInt() are computed, not assumed.      *)
(***************************************************************************)
EXTENDS Integers, Sequences, FiniteSets, TLC

VARIABLES
  users,      \* the in-memory database: id -> User
  nextId,     \* the id counter
  clock,      \* the wall clock read by new Date()
  req,        \* the request handled last
  resp,       \* the response sent to it
  assigned,   \* history: ids returned by 201 responses, in order
  deleted,    \* history: ids whose DELETE was answered 204
  born,       \* history: id -> createdAt returned by the POST that made it
  fresh,      \* history: id -> User returned by POST, until a PUT/DELETE on it
  vin,        \* the record handed to validateUserData on its own
  vout,       \* what validateUserData returned for vin
  inflight    \* connection -> the request on it and how far it has got

vars == <<users, nextId, clock, req, resp, assigned, deleted, born, fresh,
          vin, vout, inflight>>

(* ------------------------------ bounds --------------------------------- *)
MaxId == 2          \* at most MaxId users are ever created
MaxClock == 1       \* the wall clock takes the values 0..MaxClock
MaxStrLen == 5      \* longest email string fed to validateUserData on its own
MaxInflight == 2    \* connections that can carry a request at the same time

(* ------------------------- javascript strings -------------------------- *)
WhiteSpaceChars == {" ", "\t", "\n"}

RECURSIVE trimStart(_)
trimStart(s) ==
  IF s # <<>> /\ Head(s) \in WhiteSpaceChars THEN trimStart(Tail(s)) ELSE s

RECURSIVE trimEnd(_)
trimEnd(s) ==
  IF s # <<>> /\ s[Len(s)] \in WhiteSpaceChars
    THEN trimEnd(SubSeq(s, 1, Len(s) - 1))
    ELSE s

trim(s) == trimEnd(trimStart(s))

\* the character class [^\s@] of the email pattern
EmailClass(c) == c \notin WhiteSpaceChars /\ c # "@"

AllInClass(s, lo, hi) == \A i \in lo..hi : EmailClass(s[i])

\* variant: the pattern without its dot segment, /^[^\s@]+@[^\s@]+$/
EmailRegexNoDot(s) ==
  \E i \in 2..(Len(s) - 1) :
    /\ s[i] = "@"
    /\ AllInClass(s, 1, i - 1)
    /\ AllInClass(s, i + 1, Len(s))

\* /^[^\s@]+@[^\s@]+\.[^\s@]+$/.test(s)
EmailRegexTest(s) ==
  \E i \in 2..Len(s) : \E j \in (i + 2)..(Len(s) - 1) :
    /\ s[i] = "@"
    /\ s[j] = "."
    /\ AllInClass(s, 1, i - 1)
    /\ AllInClass(s, i + 1, j - 1)
    /\ AllInClass(s, j + 1, Len(s))

DigitChars == <<"0", "1", "2", "3", "4", "5", "6", "7", "8", "9",
                "a", "b", "c", "d", "e", "f">>

\* the value of each digit character, upper case included
DigitVal ==
  [c \in {DigitChars[i] : i \in 1..16} |->
     (CHOOSE i \in 1..16 : DigitChars[i] = c) - 1]
  @@ ("A" :> 10) @@ ("B" :> 11) @@ ("C" :> 12) @@ ("D" :> 13)
  @@ ("E" :> 14) @@ ("F" :> 15)

IsDigit(c, radix) == c \in DOMAIN DigitVal /\ DigitVal[c] < radix

RECURSIVE DigitPrefix(_, _)
DigitPrefix(s, radix) ==
  IF s # <<>> /\ IsDigit(Head(s), radix)
    THEN <<Head(s)>> \o DigitPrefix(Tail(s), radix)
    ELSE <<>>

RECURSIVE MathInt(_, _)
MathInt(z, radix) ==
  IF z = <<>> THEN 0
  ELSE MathInt(SubSeq(z, 1, Len(z) - 1), radix) * radix + DigitVal[z[Len(z)]]

NaN == [nan |-> TRUE, n |-> 0]

\* parseInt(string) with no radix argument
parseInt(str) ==
  LET s0 == trimStart(str)
      neg == s0 # <<>> /\ Head(s0) = "-"
      s1 == IF s0 # <<>> /\ Head(s0) \in {"+", "-"} THEN Tail(s0) ELSE s0
      hex == Len(s1) >= 2 /\ s1[1] = "0" /\ s1[2] \in {"x", "X"}
      s2 == IF hex THEN SubSeq(s1, 3, Len(s1)) ELSE s1
      radix == IF hex THEN 16 ELSE 10
      z == DigitPrefix(s2, radix)
  IN IF z = <<>> THEN NaN
     ELSE [nan |-> FALSE,
           n |-> IF neg THEN 0 - MathInt(z, radix) ELSE MathInt(z, radix)]

isNaN(x) == x.nan

\* decimal rendering of a positive integer, as a client writes it in a path
RECURSIVE DecStr(_)
DecStr(n) ==
  IF n < 10 THEN <<DigitChars[n + 1]>>
  ELSE DecStr(n \div 10) \o <<DigitChars[(n % 10) + 1]>>

(* --------------------------- json values ------------------------------- *)
Undefined == [t |-> "undefined", s |-> <<>>, n |-> 0]
Num(k) == [t |-> "number", s |-> <<>>, n |-> k]
Str(s) == [t |-> "string", s |-> s, n |-> 0]

\* !v
Falsy(v) ==
  \/ v.t \in {"undefined", "null"}
  \/ v.t \in {"number", "boolean"} /\ v.n = 0
  \/ v.t = "string" /\ v.s = <<>>

\* req.body after express.json(): undefined when no JSON body was parsed
AbsentBody == [present |-> FALSE, name |-> Undefined, email |-> Undefined]
Body(name, email) == [present |-> TRUE, name |-> name, email |-> email]

(* ----------------------------- validation ------------------------------ *)
NameError == "Name is required and must be a non-empty string"
EmailRequiredError == "Email is required and must be a non-empty string"
EmailFormatError == "Email must be a valid email address"

NameBad(v) == Falsy(v) \/ v.t # "string" \/ trim(v.s) = <<>>
EmailMissing(v) == Falsy(v) \/ v.t # "string" \/ trim(v.s) = <<>>

\* variant: stops at the first failing field
validateUserDataFirstOnly(data) ==
  IF ~data.present
    THEN [threw |-> TRUE, isValid |-> FALSE, errors |-> <<>>]
    ELSE
      IF NameBad(data.name)
        THEN [threw |-> FALSE, isValid |-> FALSE, errors |-> <<NameError>>]
      ELSE IF EmailMissing(data.email)
        THEN [threw |-> FALSE, isValid |-> FALSE,
              errors |-> <<EmailRequiredError>>]
      ELSE IF ~EmailRegexTest(data.email.s)
        THEN [threw |-> FALSE, isValid |-> FALSE,
              errors |-> <<EmailFormatError>>]
      ELSE [threw |-> FALSE, isValid |-> TRUE, errors |-> <<>>]

validateUserData(data) ==
  IF ~data.present
    THEN [threw |-> TRUE, isValid |-> FALSE, errors |-> <<>>]
    ELSE
      LET e1 == IF NameBad(data.name) THEN <<NameError>> ELSE <<>>
          e2 == IF EmailMissing(data.email) THEN <<EmailRequiredError>>
                ELSE IF ~EmailRegexTest(data.email.s) THEN <<EmailFormatError>>
                ELSE <<>>
          errors == e1 \o e2
      IN [threw |-> FALSE, isValid |-> Len(errors) = 0, errors |-> errors]

(* ------------------------------ the store ------------------------------ *)
NoUser == [id |-> 0, name |-> <<>>, email |-> <<>>, createdAt |-> 0]
NoUsers == [k \in {} |-> NoUser]

Has(u, k) == k \in DOMAIN u
Put(u, k, val) == [x \in DOMAIN u \cup {k} |-> IF x = k THEN val ELSE u[x]]
Remove(u, k) == [x \in DOMAIN u \ {k} |-> u[x]]

\* variant: keys enumerated from the largest down
RECURSIVE ObjectValuesDescending(_)
ObjectValuesDescending(u) ==
  IF DOMAIN u = {} THEN <<>>
  ELSE LET k == CHOOSE x \in DOMAIN u : \A y \in DOMAIN u : x >= y
       IN <<u[k]>> \o ObjectValuesDescending(Remove(u, k))

\* Object.values(users): integer keys are enumerated in ascending order
RECURSIVE ObjectValues(_)
ObjectValues(u) ==
  IF DOMAIN u = {} THEN <<>>
  ELSE LET k == CHOOSE x \in DOMAIN u : \A y \in DOMAIN u : x <= y
       IN <<u[k]>> \o ObjectValues(Remove(u, k))

(* ------------------------------ responses ------------------------------ *)
Response(status, kind, error, details, user, list) ==
  [status |-> status, kind |-> kind, error |-> error, details |-> details,
   user |-> user, list |-> list]

NoResponse == Response(0, "none", "", <<>>, NoUser, <<>>)
Welcome == Response(200, "message", "", <<>>, NoUser, <<>>)
UserList(list) == Response(200, "list", "", <<>>, NoUser, list)
UserJson(status, user) == Response(status, "user", "", <<>>, user, <<>>)
NoContent == Response(204, "empty", "", <<>>, NoUser, <<>>)
InvalidUserId == Response(400, "error", "Invalid user ID", <<>>, NoUser, <<>>)
UserNotFound == Response(404, "error", "User not found", <<>>, NoUser, <<>>)
ValidationFailed(errors) ==
  Response(400, "error", "Validation failed", errors, NoUser, <<>>)
\* a handler that throws is answered by express's default error handler
InternalError == Response(500, "error", "Internal Server Error", <<>>, NoUser, <<>>)

Outcome(u, n, r) == [users |-> u, nextId |-> n, resp |-> r]

(* ------------------------------ handlers ------------------------------- *)
\* variant: stores the fields as sent
newUserNoTrim(id, body, now) ==
  [id |-> id, name |-> body.name.s, email |-> body.email.s, createdAt |-> now]

newUser(id, body, now) ==
  [id |-> id, name |-> trim(body.name.s), email |-> trim(body.email.s),
   createdAt |-> now]

\* variant: builds the record afresh instead of spreading the old one
updatedUserRebuilt(user, body) ==
  [id |-> user.id, name |-> trim(body.name.s), email |-> trim(body.email.s),
   createdAt |-> 0]

updatedUser(user, body) ==
  [id |-> user.id, name |-> trim(body.name.s), email |-> trim(body.email.s),
   createdAt |-> user.createdAt]

\* app.get("/")
getRoot(u, n) == Outcome(u, n, Welcome)

\* app.get("/users")
getUsers(u, n) == Outcome(u, n, UserList(ObjectValues(u)))

\* variant: the record is taken out of the store when it is read
getUserConsumes(u, n, seg) ==
  LET id == parseInt(seg) IN
  IF isNaN(id) THEN Outcome(u, n, InvalidUserId)
  ELSE IF ~Has(u, id.n) THEN Outcome(u, n, UserNotFound)
  ELSE Outcome(Remove(u, id.n), n, UserJson(200, u[id.n]))

\* app.get("/users/:id")
getUser(u, n, seg) ==
  LET id == parseInt(seg) IN
  IF isNaN(id) THEN Outcome(u, n, InvalidUserId)
  ELSE IF ~Has(u, id.n) THEN Outcome(u, n, UserNotFound)
  ELSE Outcome(u, n, UserJson(200, u[id.n]))

\* variant: the counter is read but not advanced
postUsersNoIncrement(u, n, body, now) ==
  LET v == validateUserData(body) IN
  IF v.threw THEN Outcome(u, n, InternalError)
  ELSE IF ~v.isValid THEN Outcome(u, n, ValidationFailed(v.errors))
  ELSE LET nu == newUser(n, body, now)
       IN Outcome(Put(u, nu.id, nu), n, UserJson(201, nu))

\* variant: the record is stored under the counter's value after the increment
postUsersWrongKey(u, n, body, now) ==
  LET v == validateUserData(body) IN
  IF v.threw THEN Outcome(u, n, InternalError)
  ELSE IF ~v.isValid THEN Outcome(u, n, ValidationFailed(v.errors))
  ELSE LET nu == newUser(n, body, now)
       IN Outcome(Put(u, n + 1, nu), n + 1, UserJson(201, nu))

\* variant: the response echoes the request's fields instead of the record
postUsersEchoesBody(u, n, body, now) ==
  LET v == validateUserData(body) IN
  IF v.threw THEN Outcome(u, n, InternalError)
  ELSE IF ~v.isValid THEN Outcome(u, n, ValidationFailed(v.errors))
  ELSE LET nu == newUser(n, body, now)
       IN Outcome(Put(u, nu.id, nu), n + 1,
                  UserJson(201, newUserNoTrim(n, body, now)))

\* variant: the id is taken from the counter before the body is validated
postUsersEagerId(u, n, body, now) ==
  LET v == validateUserData(body) IN
  IF v.threw THEN Outcome(u, n, InternalError)
  ELSE IF ~v.isValid THEN Outcome(u, n + 1, ValidationFailed(v.errors))
  ELSE LET nu == newUser(n, body, now)
       IN Outcome(Put(u, nu.id, nu), n + 1, UserJson(201, nu))

\* app.post("/users")
postUsers(u, n, body, now) ==
  LET v == validateUserData(body) IN
  IF v.threw THEN Outcome(u, n, InternalError)
  ELSE IF ~v.isValid THEN Outcome(u, n, ValidationFailed(v.errors))
  ELSE LET nu == newUser(n, body, now)
       IN Outcome(Put(u, nu.id, nu), n + 1, UserJson(201, nu))

\* variant: the name is written before the body is validated
putUserPartial(u, n, seg, body) ==
  LET id == parseInt(seg) IN
  IF isNaN(id) THEN Outcome(u, n, InvalidUserId)
  ELSE IF ~Has(u, id.n) THEN Outcome(u, n, UserNotFound)
  ELSE LET v == validateUserData(body)
           named == IF body.name.t = "string"
                      THEN Put(u, id.n, [u[id.n] EXCEPT !.name = trim(body.name.s)])
                      ELSE u
       IN
       IF v.threw THEN Outcome(u, n, InternalError)
       ELSE IF ~v.isValid THEN Outcome(named, n, ValidationFailed(v.errors))
       ELSE LET nu == Put(u, id.n, updatedUser(u[id.n], body))
            IN Outcome(nu, n, UserJson(200, nu[id.n]))

\* variant: the body is validated before the user is looked up
putUserValidatesFirst(u, n, seg, body) ==
  LET id == parseInt(seg) IN
  IF isNaN(id) THEN Outcome(u, n, InvalidUserId)
  ELSE LET v == validateUserData(body) IN
       IF v.threw THEN Outcome(u, n, InternalError)
       ELSE IF ~v.isValid THEN Outcome(u, n, ValidationFailed(v.errors))
       ELSE IF ~Has(u, id.n) THEN Outcome(u, n, UserNotFound)
       ELSE LET nu == Put(u, id.n, updatedUser(u[id.n], body))
            IN Outcome(nu, n, UserJson(200, nu[id.n]))

\* app.put("/users/:id")
putUser(u, n, seg, body) ==
  LET id == parseInt(seg) IN
  IF isNaN(id) THEN Outcome(u, n, InvalidUserId)
  ELSE IF ~Has(u, id.n) THEN Outcome(u, n, UserNotFound)
  ELSE LET v == validateUserData(body) IN
       IF v.threw THEN Outcome(u, n, InternalError)
       ELSE IF ~v.isValid THEN Outcome(u, n, ValidationFailed(v.errors))
       ELSE LET nu == Put(u, id.n, updatedUser(u[id.n], body))
            IN Outcome(nu, n, UserJson(200, nu[id.n]))

\* variant: answers 204 without removing the key
deleteUserKeeps(u, n, seg) ==
  LET id == parseInt(seg) IN
  IF isNaN(id) THEN Outcome(u, n, InvalidUserId)
  ELSE IF ~Has(u, id.n) THEN Outcome(u, n, UserNotFound)
  ELSE Outcome(u, n, NoContent)

\* variant: the whole object is emptied
deleteUserClearsAll(u, n, seg) ==
  LET id == parseInt(seg) IN
  IF isNaN(id) THEN Outcome(u, n, InvalidUserId)
  ELSE IF ~Has(u, id.n) THEN Outcome(u, n, UserNotFound)
  ELSE Outcome(NoUsers, n, NoContent)

\* variant: a missing user ends the handler without a response
deleteUserSilent(u, n, seg) ==
  LET id == parseInt(seg) IN
  IF isNaN(id) THEN Outcome(u, n, InvalidUserId)
  ELSE IF ~Has(u, id.n) THEN Outcome(u, n, NoResponse)
  ELSE Outcome(Remove(u, id.n), n, NoContent)

\* app.delete("/users/:id")
deleteUser(u, n, seg) ==
  LET id == parseInt(seg) IN
  IF isNaN(id) THEN Outcome(u, n, InvalidUserId)
  ELSE IF ~Has(u, id.n) THEN Outcome(u, n, UserNotFound)
  ELSE Outcome(Remove(u, id.n), n, NoContent)

(* ------------------------------- inputs -------------------------------- *)
\* path segments sent as :id
IdSegments ==
  {DecStr(k) : k \in 1..MaxId} \cup
  { <<"a", "b", "c">>, <<"1", "a">>, <<"0", "x", "2">> }

\* request bodies sent to POST and PUT
Bodies ==
  { AbsentBody,
    Body(Str(<<" ", "a", " ">>), Str(<<"a", "@", "b", ".", "c">>)),
    Body(Str(<<"b">>), Str(<<"x", "@", "y", ".", "z">>)),
    Body(Str(<<"b">>), Str(<<" ", "a", "@", "b", ".", "c">>)) }

Request(method, route, seg, body) ==
  [method |-> method, route |-> route, seg |-> seg, body |-> body]

NoRequest == Request("NONE", "", <<>>, AbsentBody)

Slots == 1..MaxInflight
Slot(state, r, sent, response) ==
  [state |-> state, req |-> r, sent |-> sent, resp |-> response]
Idle == Slot("idle", NoRequest, 0, NoResponse)
NotRun == [threw |-> FALSE, isValid |-> FALSE, errors |-> <<"not run">>]

(* ------------------------------- actions ------------------------------- *)
Init ==
  /\ users = NoUsers
  /\ nextId = 1
  /\ clock = 0
  /\ req = NoRequest
  /\ resp = NoResponse
  /\ assigned = <<>>
  /\ deleted = {}
  /\ born = [k \in {} |-> 0]
  /\ fresh = NoUsers
  /\ vin = AbsentBody
  /\ vout = NotRun
  /\ inflight = [s \in Slots |-> Idle]

\* the request r was handled with outcome out; now is the wall clock as last
\* read (only POST /users reads it, through new Date())
Handled(r, out, now) ==
  LET id == parseInt(r.seg)
      created == r.method = "POST" /\ out.resp.status = 201
      writes == r.method \in {"PUT", "DELETE"} /\ ~isNaN(id)
  IN
  /\ out.nextId <= MaxId + 1
  /\ users' = out.users
  /\ nextId' = out.nextId
  /\ clock' = now
  /\ req' = r
  /\ resp' = out.resp
  /\ assigned' = IF created THEN Append(assigned, out.resp.user.id)
                 ELSE assigned
  /\ deleted' = IF r.method = "DELETE" /\ out.resp.status = 204
                  THEN deleted \cup {id.n} ELSE deleted
  /\ born' = IF created
               THEN Put(born, out.resp.user.id, out.resp.user.createdAt)
               ELSE born
  /\ fresh' = IF created THEN Put(fresh, out.resp.user.id, out.resp.user)
              ELSE IF writes THEN Remove(fresh, id.n)
              ELSE fresh
  /\ UNCHANGED <<vin, vout>>

GetRoot ==
  /\ Handled(Request("GET", "/", <<>>, AbsentBody), getRoot(users, nextId),
             clock)
  /\ UNCHANGED inflight

GetUsers ==
  /\ Handled(Request("GET", "/users", <<>>, AbsentBody),
             getUsers(users, nextId), clock)
  /\ UNCHANGED inflight

GetUser ==
  \E seg \in IdSegments :
    /\ Handled(Request("GET", "/users/:id", seg, AbsentBody),
               getUser(users, nextId, seg), clock)
    /\ UNCHANGED inflight

PostUsers ==
  \E body \in Bodies, now \in clock..MaxClock :
    /\ Handled(Request("POST", "/users", <<>>, body),
               postUsers(users, nextId, body, now), now)
    /\ UNCHANGED inflight

PutUser ==
  \E seg \in IdSegments, body \in Bodies :
    /\ Handled(Request("PUT", "/users/:id", seg, body),
               putUser(users, nextId, seg, body), clock)
    /\ UNCHANGED inflight

DeleteUser ==
  \E seg \in IdSegments :
    /\ Handled(Request("DELETE", "/users/:id", seg, AbsentBody),
               deleteUser(users, nextId, seg), clock)
    /\ UNCHANGED inflight

Next ==
  \/ GetRoot
  \/ GetUsers
  \/ GetUser
  \/ PostUsers
  \/ PutUser
  \/ DeleteUser

Spec == Init /\ [][Next]_vars

(* ------------------- validateUserData on its own ----------------------- *)
EmailAlphabet == {"a", " ", "@", "."}
NameAlphabet == {"a", " "}

RECURSIVE StringsUpTo(_, _)
StringsUpTo(alphabet, n) ==
  IF n = 0 THEN {<<>>}
  ELSE LET shorter == StringsUpTo(alphabet, n - 1)
       IN shorter \cup {Append(s, c) : s \in shorter, c \in alphabet}

NonStrings ==
  { Undefined, [t |-> "null", s |-> <<>>, n |-> 0], Num(0), Num(7),
    [t |-> "boolean", s |-> <<>>, n |-> 1] }

NameValues == NonStrings \cup {Str(s) : s \in StringsUpTo(NameAlphabet, 2)}
EmailValues ==
  NonStrings \cup {Str(s) : s \in StringsUpTo(EmailAlphabet, MaxStrLen)}
    \cup { Str(<<"b", "a", "d">>),
           Str(<<"a", "@", "b", ".", "c">>),
           Str(<<"a", "@", "b">>),
           Str(<<"n", "o", "a", "t", "s", "i", "g", "n", ".", "c", "o", "m">>) }

ValidateInputs ==
  {AbsentBody} \cup {Body(nm, em) : nm \in NameValues, em \in EmailValues}

InitValidate ==
  /\ users = NoUsers
  /\ nextId = 1
  /\ clock = 0
  /\ req = NoRequest
  /\ resp = NoResponse
  /\ assigned = <<>>
  /\ deleted = {}
  /\ born = [k \in {} |-> 0]
  /\ fresh = NoUsers
  /\ vin \in ValidateInputs
  /\ vout = NotRun
  /\ inflight = [s \in Slots |-> Idle]

Validate ==
  /\ vout = NotRun
  /\ vout' = validateUserData(vin)
  /\ UNCHANGED <<users, nextId, clock, req, resp, assigned, deleted, born,
                 fresh, vin, inflight>>

NextValidate == Validate

SpecValidate == InitValidate /\ [][NextValidate]_vars

(* ----------------------- requests in flight together ------------------ *)
\* the router: the handler registered for the request's method and route
dispatch(u, n, r, now) ==
  IF r.method = "GET" /\ r.route = "/" THEN getRoot(u, n)
  ELSE IF r.method = "GET" /\ r.route = "/users" THEN getUsers(u, n)
  ELSE IF r.method = "GET" THEN getUser(u, n, r.seg)
  ELSE IF r.method = "POST" THEN postUsers(u, n, r.body, now)
  ELSE IF r.method = "PUT" THEN putUser(u, n, r.seg, r.body)
  ELSE deleteUser(u, n, r.seg)

\* requests sent while others are still in flight
ConcurrentRequests ==
  { Request("POST", "/users", <<>>,
            Body(Str(<<" ", "a", " ">>), Str(<<"a", "@", "b", ".", "c">>))),
    Request("POST", "/users", <<>>, AbsentBody),
    Request("PUT", "/users/:id", <<"1">>,
            Body(Str(<<"b">>), Str(<<"x", "@", "y", ".", "z">>))),
    Request("DELETE", "/users/:id", <<"1">>, AbsentBody) }

Creates(r) ==
  r.method = "POST" /\ r.body.present /\ validateUserData(r.body).isValid

\* the request r arrives on the free connection s; express.json() reads its
\* body over later turns of the event loop, so its handler has not run yet
Receive(s, r) ==
  /\ inflight[s].state = "idle"
  /\ Creates(r) =>
       nextId + Cardinality({q \in Slots : inflight[q].state = "pending"
                                          /\ Creates(inflight[q].req)})
         <= MaxId
  /\ inflight' = [inflight EXCEPT ![s] = Slot("pending", r, 0, NoResponse)]
  /\ UNCHANGED <<users, nextId, clock, req, resp, assigned, deleted, born,
                 fresh, vin, vout>>

Arrive(s) == \E r \in ConcurrentRequests : Receive(s, r)

\* the handler of a pending request runs, from its first line to its return,
\* in one turn of the event loop
Dispatch(s) ==
  LET r == inflight[s].req IN
  /\ inflight[s].state = "pending"
  /\ \E now \in clock..(IF r.method = "POST" THEN MaxClock ELSE clock) :
       \E out \in {dispatch(users, nextId, r, now)} :
       /\ Handled(r, out, now)
       /\ inflight' =
            [inflight EXCEPT ![s] =
               IF out.resp = NoResponse THEN Slot("hung", r, 0, NoResponse)
               ELSE Slot("answered", r, inflight[s].sent + 1, out.resp)]

\* the client has read the response; the connection is free again
Collect(s) ==
  /\ inflight[s].state = "answered"
  /\ inflight' = [inflight EXCEPT ![s] = Idle]
  /\ UNCHANGED <<users, nextId, clock, req, resp, assigned, deleted, born,
                 fresh, vin, vout>>

NextConcurrent ==
  \/ \E s \in Slots : Arrive(s)
  \/ \E s \in Slots : Dispatch(s)
  \/ \E s \in Slots : Collect(s)

SpecConcurrent == Init /\ [][NextConcurrent]_vars

(* ------------------- one connection, every route ----------------------- *)
LiveRequests ==
  ConcurrentRequests \cup
  { Request("GET", "/", <<>>, AbsentBody),
    Request("GET", "/users", <<>>, AbsentBody),
    Request("GET", "/users/:id", <<"1">>, AbsentBody),
    Request("GET", "/users/:id", <<"a", "b", "c">>, AbsentBody),
    Request("PUT", "/users/:id", <<"1">>, AbsentBody) }

ArriveLive == \E r \in LiveRequests : Receive(1, r)
DispatchLive == Dispatch(1)
CollectLive == Collect(1)

NextLive ==
  \/ ArriveLive
  \/ DispatchLive
  \/ CollectLive

\* the event loop runs every callback that is ready
SpecLive == Init /\ [][NextLive]_vars /\ WF_vars(DispatchLive)

(* ------------------------------ properties ----------------------------- *)
OnId(r) == r.route = "/users/:id" /\ ~isNaN(parseInt(r.seg))
IdOf(r) == parseInt(r.seg).n

\* C1: the ids returned by successful POST /users start at 1, are strictly
\* increasing and pairwise distinct over the whole history, so an id is
\* never handed out twice, deletions included.
C1_IdsStrictlyIncreasing ==
  /\ assigned # <<>> => assigned[1] = 1
  /\ \A i, j \in 1..Len(assigned) : i < j => assigned[i] < assigned[j]

C1_Witness ==
  /\ req.method = "POST" /\ resp.status = 201
  /\ Len(assigned) >= 2
  /\ assigned[1] \in deleted

\* C2: once DELETE /users/k was answered 204, every later GET or DELETE of k
\* is answered 404.
C2_DeleteIsTerminal ==
  [][ (req'.method \in {"GET", "DELETE"} /\ OnId(req') /\ IdOf(req') \in deleted)
        => resp'.status = 404 ]_vars

C2_Witness ==
  /\ req.method = "DELETE" /\ OnId(req) /\ IdOf(req) \in deleted
  /\ resp.status = 404
  /\ Len(assigned) >= 2

\* C3: a PUT answered 200 sets name and email of the addressed user to the
\* trimmed request values and keeps its id and createdAt; every user in the
\* store or in a response carries the createdAt its POST returned.
C3_UpdatePreservesIdentity ==
  /\ [][ (req'.method = "PUT" /\ resp'.status = 200) =>
           LET k == IdOf(req') IN
           /\ k \in DOMAIN users /\ k \in DOMAIN users'
           /\ users'[k].name = trim(req'.body.name.s)
           /\ users'[k].email = trim(req'.body.email.s)
           /\ users'[k].id = users[k].id
           /\ users'[k].createdAt = users[k].createdAt
           /\ resp'.user = users'[k] ]_vars
  /\ [](\A k \in DOMAIN users : users[k].createdAt = born[k])
  /\ [](resp.kind = "user" => resp.user.createdAt = born[resp.user.id])
  /\ [](\A i \in 1..Len(resp.list) :
          resp.list[i].createdAt = born[resp.list[i].id])

C3_Witness ==
  /\ req.method = "PUT" /\ resp.status = 200
  /\ resp.user.createdAt # 0
  /\ resp.user.name # req.body.name.s
  /\ resp.user.id \notin DOMAIN fresh

\* C4: a POST, PUT or DELETE answered 400 or 404 leaves users and nextId as
\* they were.
C4_ErrorsLeaveStore ==
  [][ (req'.method \in {"POST", "PUT", "DELETE"} /\ resp'.status \in {400, 404})
        => (users' = users /\ nextId' = nextId) ]_vars

C4_Witness ==
  /\ req.method = "PUT" /\ resp.status = 400
  /\ resp.error = "Validation failed"
  /\ req.body.name.t = "string" /\ trim(req.body.name.s) # <<>>
  /\ users[IdOf(req)].name # trim(req.body.name.s)

\* C5: a GET of an id whose user was created and has had no PUT or DELETE
\* since is answered 200 with the record the POST returned.
C5_CreateThenGet ==
  (req.method = "GET" /\ OnId(req) /\ IdOf(req) \in DOMAIN fresh)
    => (resp.status = 200 /\ resp.kind = "user" /\ resp.user = fresh[IdOf(req)])

C5_Witness ==
  /\ req.method = "GET" /\ OnId(req) /\ IdOf(req) \in DOMAIN fresh
  /\ resp.status = 200
  /\ deleted # {}
  /\ resp.user.name = <<"a">>

\* a path segment that is an integer: an optional sign and decimal digits
IsIntegerSegment(seg) ==
  LET digits == IF seg # <<>> /\ Head(seg) \in {"+", "-"} THEN Tail(seg) ELSE seg
  IN digits # <<>> /\ \A i \in 1..Len(digits) : IsDigit(digits[i], 10)

\* C6: GET, PUT and DELETE on /users/:id answer 400 "Invalid user ID"
\* whenever the :id segment is not an integer.
C6_NonIntegerIdRejected ==
  (req.route = "/users/:id" /\ ~IsIntegerSegment(req.seg))
    => (resp.status = 400 /\ resp.error = "Invalid user ID")

Has_(errors, e) == \E i \in 1..Len(errors) : errors[i] = e

\* C7: for a record, validateUserData reports the name error iff name is not
\* a non-blank string, then exactly one email error iff email is bad (the
\* required error when it is not a non-blank string, else the format error
\* when the pattern fails), and isValid iff there are no errors.
C7_ValidationAccumulates ==
  (vout # NotRun /\ vin.present) =>
    LET nameBad == vin.name.t # "string" \/ trim(vin.name.s) = <<>>
        emailReq == vin.email.t # "string" \/ trim(vin.email.s) = <<>>
        emailFmt == ~emailReq /\ ~EmailRegexTest(vin.email.s)
        expected ==
          (IF nameBad THEN <<NameError>> ELSE <<>>) \o
          (IF emailReq THEN <<EmailRequiredError>>
           ELSE IF emailFmt THEN <<EmailFormatError>> ELSE <<>>)
    IN /\ ~vout.threw
       /\ Has_(vout.errors, NameError) <=> nameBad
       /\ Has_(vout.errors, EmailRequiredError) <=> emailReq
       /\ Has_(vout.errors, EmailFormatError) <=> emailFmt
       /\ vout.errors = expected
       /\ vout.isValid <=> (vout.errors = <<>>)

C7_Witness ==
  /\ vin = Body(Str(<<>>), Str(<<"b", "a", "d">>))
  /\ vout.errors = <<NameError, EmailFormatError>>
  /\ ~vout.isValid

\* C8: every POST /users is answered 201 with the new user or 400
\* "Validation failed" with a non-empty details list, whatever the body.
C8_PostIs201Or400 ==
  req.method = "POST" =>
    \/ resp.status = 201 /\ resp.kind = "user"
    \/ /\ resp.status = 400 /\ resp.error = "Validation failed"
       /\ resp.details # <<>>

\* C9: every key of users maps to a User whose id is that key, a positive
\* integer.
C9_KeyEqualsId ==
  \A k \in DOMAIN users : users[k].id = k /\ k \in Nat /\ k >= 1

C9_Witness ==
  /\ Cardinality(DOMAIN users) >= 2
  /\ req.method = "PUT" /\ resp.status = 200

\* C10: every stored user has a non-empty name without surrounding
\* whitespace and an email matching the pattern.
C10_StoredUsersWellFormed ==
  \A k \in DOMAIN users :
    /\ users[k].name # <<>>
    /\ users[k].name = trim(users[k].name)
    /\ EmailRegexTest(users[k].email)

C10_Witness ==
  /\ req.method \in {"POST", "PUT"} /\ resp.status \in {200, 201}
  /\ req.body.name.s # resp.user.name
  /\ users[resp.user.id] = resp.user

\* the ids handed out so far that were not deleted since, in creation order
Surviving ==
  LET Alive(k) == k \notin deleted IN SelectSeq(assigned, Alive)

\* C11: GET /users lists exactly the users created and not deleted since,
\* each once, in its current form, in creation order, which is ascending id
\* order.
C11_ListIsCurrentUsersInOrder ==
  (req.method = "GET" /\ req.route = "/users") =>
    /\ resp.status = 200
    /\ Len(resp.list) = Len(Surviving)
    /\ \A i \in 1..Len(resp.list) :
         /\ resp.list[i].id = Surviving[i]
         /\ resp.list[i] = users[Surviving[i]]
    /\ \A i, j \in 1..Len(resp.list) : i < j => resp.list[i].id < resp.list[j].id

C11_Witness ==
  /\ req.method = "GET" /\ req.route = "/users"
  /\ Len(resp.list) >= 1
  /\ deleted # {}
  /\ \E i \in 1..Len(resp.list) : resp.list[i].id \notin DOMAIN fresh

\* C13: a GET changes neither users nor nextId, and a GET repeated right
\* after itself is answered as before.
C13_GetIsReadOnly ==
  [][ req'.method = "GET" =>
        /\ users' = users /\ nextId' = nextId
        /\ (req' = req => resp' = resp) ]_vars

C13_Witness ==
  /\ req.method = "GET" /\ req.route = "/users/:id"
  /\ resp.status = 200
  /\ Cardinality(DOMAIN users) >= 1

\* C16: PUT checks the id first (400 "Invalid user ID"), then the user
\* (404), then the body (400 "Validation failed"); a missing user is
\* answered 404 whatever the body, and "Validation failed" is only sent for
\* a user that exists.
C16_PutCheckOrder ==
  [][ req'.method = "PUT" =>
        LET id == parseInt(req'.seg)
            v == validateUserData(req'.body)
        IN
        /\ isNaN(id) => resp' = InvalidUserId
        /\ (~isNaN(id) /\ id.n \notin DOMAIN users) => resp' = UserNotFound
        /\ (~isNaN(id) /\ id.n \in DOMAIN users /\ ~v.threw /\ ~v.isValid)
             => resp' = ValidationFailed(v.errors)
        /\ resp'.error = "Validation failed"
             => (~isNaN(id) /\ id.n \in DOMAIN users) ]_vars

C16_Witness ==
  /\ req.method = "PUT" /\ resp = UserNotFound
  /\ req.body.present /\ ~validateUserData(req.body).isValid
  /\ users # NoUsers

\* C17: nextId is one more than the number of 201 responses, every key of
\* users is below it, and the k-th successful create got id k.
C17_CounterCountsCreates ==
  /\ nextId = Len(assigned) + 1
  /\ \A k \in DOMAIN users : k < nextId
  /\ \A i \in 1..Len(assigned) : assigned[i] = i

C17_Witness ==
  /\ req.method = "POST" /\ resp.status = 400
  /\ Len(assigned) >= 1
  /\ deleted # {}

\* C18: a PUT answered 200 or a DELETE answered 204 on id k changes no
\* entry but k's and leaves nextId; a POST answered 201 adds one new key and
\* changes no existing record.
C18_WritesAreLocal ==
  [][ /\ (req'.method \in {"PUT", "DELETE"} /\ resp'.status \in {200, 204}) =>
           LET k == IdOf(req') IN
           /\ nextId' = nextId
           /\ k \in DOMAIN users
           /\ DOMAIN users' = IF req'.method = "PUT" THEN DOMAIN users
                              ELSE DOMAIN users \ {k}
           /\ \A j \in DOMAIN users \ {k} : users'[j] = users[j]
      /\ (req'.method = "POST" /\ resp'.status = 201) =>
           LET k == resp'.user.id IN
           /\ k \notin DOMAIN users
           /\ DOMAIN users' = DOMAIN users \cup {k}
           /\ \A j \in DOMAIN users : users'[j] = users[j] ]_vars

C18_Witness ==
  /\ req.method = "DELETE" /\ resp.status = 204
  /\ Cardinality(DOMAIN users) >= 1

\* a local part, one "@", and a domain with a dot that is neither its first
\* nor its last character, with no whitespace anywhere
EmailShape(s) ==
  LET ats == {i \in 1..Len(s) : s[i] = "@"} IN
  /\ \A i \in 1..Len(s) : s[i] \notin WhiteSpaceChars
  /\ Cardinality(ats) = 1
  /\ \A at \in ats :
       /\ at > 1
       /\ \E j \in (at + 2)..(Len(s) - 1) : s[j] = "."

EmailAccepted ==
  /\ ~Has_(vout.errors, EmailRequiredError)
  /\ ~Has_(vout.errors, EmailFormatError)

\* C15: a string email is accepted by validateUserData iff it is one or more
\* non-whitespace non-"@" characters, "@", one or more such characters, ".",
\* one or more such characters; a@b.c is accepted, a@b and noatsign.com are
\* rejected.
C15_EmailBoundary ==
  (vout # NotRun /\ vin.present /\ vin.email.t = "string") =>
    /\ EmailAccepted <=> EmailShape(vin.email.s)
    /\ vin.email.s = <<"a", "@", "b", ".", "c">> => EmailAccepted
    /\ vin.email.s = <<"a", "@", "b">> => ~EmailAccepted
    /\ vin.email.s = <<"n", "o", "a", "t", "s", "i", "g", "n", ".", "c", "o", "m">>
         => ~EmailAccepted

C15_Witness ==
  /\ vout # NotRun /\ vin.present
  /\ vin.email = Str(<<"a", "@", "b", ".", "c">>)
  /\ EmailAccepted

Created(s) ==
  /\ inflight[s].state = "answered"
  /\ inflight[s].req.method = "POST"
  /\ inflight[s].resp.status = 201

\* C12: with requests in flight together, handlers still act one at a time:
\* two POSTs never get the same id, and a record changes, appears or
\* disappears only through the successful write handled in that very step.
C12_HandlersAreAtomic ==
  /\ [](\A s, q \in Slots :
          (s # q /\ Created(s) /\ Created(q))
            => inflight[s].resp.user.id # inflight[q].resp.user.id)
  /\ [](\A i, j \in 1..Len(assigned) : i # j => assigned[i] # assigned[j])
  /\ [](\A s \in Slots :
          (Created(s) /\ inflight[s].resp.user.id \in DOMAIN users)
            => users[inflight[s].resp.user.id].id = inflight[s].resp.user.id)
  /\ [][ \A k \in DOMAIN users \cup DOMAIN users' :
           (k \notin DOMAIN users \/ k \notin DOMAIN users' \/ users'[k] # users[k])
             => \/ /\ req'.method = "POST" /\ resp'.status = 201
                   /\ resp'.user.id = k /\ k \notin DOMAIN users
                   /\ users'[k] = resp'.user
                \/ /\ req'.method = "PUT" /\ resp'.status = 200
                   /\ IdOf(req') = k /\ users'[k] = resp'.user
                \/ /\ req'.method = "DELETE" /\ resp'.status = 204
                   /\ IdOf(req') = k /\ k \notin DOMAIN users' ]_vars

C12_Witness ==
  /\ \E s, q \in Slots : s # q /\ Created(s) /\ Created(q)
  /\ Cardinality(DOMAIN users) = 2

\* C14: every request that arrived is answered, once: a pending request
\* leads to an answered one, no handler ends without a response, and no
\* request is answered twice.
C14_ExactlyOneResponse ==
  /\ (inflight[1].state = "pending") ~> (inflight[1].state = "answered")
  /\ [](\A s \in Slots :
          /\ inflight[s].state # "hung"
          /\ inflight[s].sent <= 1
          /\ inflight[s].state = "answered" <=> inflight[s].sent = 1)

C14_Witness ==
  \E s \in Slots :
    /\ inflight[s].state = "answered" /\ inflight[s].sent = 1
    /\ inflight[s].resp.status = 500
    /\ users # NoUsers

====
